---- MODULE Spec2Model ----
(***************************************************************************)
(* A model of superset/connectors/base.py: BaseDatasource, BaseColumn and  *)
(* BaseMetric, the common interface of Superset's queryable objects.       *)
(*                                                                         *)
(* Python values are tagged records (None, bool, int, str); a str is a     *)
(* sequence of one-character strings, so that formatting, upper-casing,    *)
(* substring search, comparison and JSON encoding are computed character   *)
(* by character as the interpreter computes them.  A column's name is a    *)
(* str or None, and a property that reads the names returns a value or     *)
(* raises; a metric's name is a str, kept as a bare character sequence.    *)
(***************************************************************************)
EXTENDS Integers, Sequences, FiniteSets

VARIABLES
    classColumns,   \* BaseDatasource.columns, the class-level list
    classMetrics,   \* BaseDatasource.metrics, the class-level list
    inst,           \* the datasource instances: their own attributes
    column,         \* a BaseColumn instance (its type attribute)
    last            \* the outcome of the last call made on the interface

vars == <<classColumns, classMetrics, inst, column, last>>

----------------------------------------------------------------------------
(* Bounds of the model. *)

MaxCols == 3
MaxMetrics == 2
MaxTypeLen == 8
MaxLimit == 2

----------------------------------------------------------------------------
(* Python values. *)

None == [kind |-> "NoneType"]
PyBool(b) == [kind |-> "bool", val |-> b]
PyInt(n) == [kind |-> "int", val |-> n]
PyStr(s) == [kind |-> "str", val |-> s]

\* Truth value testing, as `if x`, `x and y`, `x or y` apply it.
Truthy(v) ==
    CASE v.kind = "NoneType" -> FALSE
      [] v.kind = "bool" -> v.val
      [] v.kind = "int" -> v.val # 0
      [] v.kind = "str" -> v.val # <<>>

\* `a and b` yields a when a is falsy, else b.
PyAnd(a, b) == IF Truthy(a) THEN b ELSE a

\* `a or b` yields a when a is truthy, else b.
PyOr(a, b) == IF Truthy(a) THEN a ELSE b

\* The printable ASCII characters, code points 32 to 126, in order.  (The
\* grave accent, code point 96, cannot be written in a TLA+ string and is
\* spelled out; no string of the model holds it.)
Ascii ==
    << " ", "!", "\"", "#", "$", "%", "&", "'", "(", ")", "*", "+", ",", "-",
       ".", "/", "0", "1", "2", "3", "4", "5", "6", "7", "8", "9", ":", ";",
       "<", "=", ">", "?", "@", "A", "B", "C", "D", "E", "F", "G", "H", "I",
       "J", "K", "L", "M", "N", "O", "P", "Q", "R", "S", "T", "U", "V", "W",
       "X", "Y", "Z", "[", "\\", "]", "^", "_", "GRAVE", "a", "b", "c", "d", "e",
       "f", "g", "h", "i", "j", "k", "l", "m", "n", "o", "p", "q", "r", "s",
       "t", "u", "v", "w", "x", "y", "z", "{", "|", "}", "~" >>

\* ord(c)
CodePoints ==
    [c \in {Ascii[i] : i \in 1..Len(Ascii)} |->
        31 + (CHOOSE i \in 1..Len(Ascii) : Ascii[i] = c)]
Code(c) == CodePoints[c]

\* chr(n)
Chr(n) == Ascii[n - 31]

\* str < str: lexicographic by code point, a proper prefix first.
RECURSIVE StrLess(_, _)
StrLess(a, b) ==
    IF b = <<>> THEN FALSE
    ELSE IF a = <<>> THEN TRUE
    ELSE IF Head(a) # Head(b) THEN Code(Head(a)) < Code(Head(b))
    ELSE StrLess(Tail(a), Tail(b))

\* str.upper()
UpperChar(c) == IF Code(c) \in 97..122 THEN Chr(Code(c) - 32) ELSE c
Upper(s) == [i \in 1..Len(s) |-> UpperChar(s[i])]

\* `t in s` for two str: t occurs in s as a contiguous run.
Contains(s, t) ==
    \E i \in 0..(Len(s) - Len(t)) : SubSeq(s, i + 1, i + Len(t)) = t

\* str(n) for an int.
RECURSIVE Digits(_)
Digits(n) ==
    IF n < 10 THEN <<Chr(48 + n)>>
    ELSE Append(Digits(n \div 10), Chr(48 + (n % 10)))
IntStr(n) == IF n < 0 THEN <<"-">> \o Digits(0 - n) ELSE Digits(n)

\* What str.format() substitutes for a value: str(v).
Format(v) ==
    CASE v.kind = "NoneType" -> <<"N", "o", "n", "e">>
      [] v.kind = "bool" ->
            IF v.val THEN <<"T", "r", "u", "e">> ELSE <<"F", "a", "l", "s", "e">>
      [] v.kind = "int" -> IntStr(v.val)
      [] v.kind = "str" -> v.val

\* sorted(s, key=...) on the pairs <<key of x, x>>: a stable sort,
\* ascending by key.  Each pair is inserted after the pairs already placed
\* whose key is not greater.
InsertByKey(t, x) ==
    LET p == Cardinality({i \in 1..Len(t) : ~StrLess(x[1], t[i][1])})
    IN  SubSeq(t, 1, p) \o <<x>> \o SubSeq(t, p + 1, Len(t))
SortedByKey(keyed) ==
    LET F[i \in 0..Len(keyed)] ==
            IF i = 0 THEN <<>> ELSE InsertByKey(F[i - 1], keyed[i])
    IN  [i \in 1..Len(keyed) |-> F[Len(keyed)][i][2]]

\* sorted(s): each element is its own key.
Sorted(s) == SortedByKey([i \in 1..Len(s) |-> <<s[i], s[i]>>])

----------------------------------------------------------------------------
(* The objects of the model. *)

DS == {"d1", "d2"}

\* A column whose name has been assigned None: column_name is nullable.
NamelessColumn ==
    [column_name |-> None, groupby |-> PyBool(TRUE),
     filterable |-> PyBool(TRUE)]

\* BaseColumn instances that may be added to a datasource: names out of
\* order, a name that differs only in case, a repeated name, a name holding a
\* character JSON escapes, a column without a name, and every combination
\* of the two flags (a flag may have been assigned None).
ColumnPool ==
    { [column_name |-> PyStr(<<"a", "b">>), groupby |-> PyBool(TRUE),
       filterable |-> PyBool(FALSE)],
      [column_name |-> PyStr(<<"a">>), groupby |-> PyBool(FALSE),
       filterable |-> PyBool(TRUE)],
      [column_name |-> PyStr(<<"B", "\"">>), groupby |-> PyBool(TRUE),
       filterable |-> PyBool(TRUE)],
      [column_name |-> PyStr(<<"a">>), groupby |-> PyBool(FALSE),
       filterable |-> None],
      NamelessColumn }

\* BaseMetric instances that may be added: a metric with no verbose name,
\* one whose verbose name equals another metric's name (equal labels), one
\* with an empty verbose name, and one whose label sorts before its name.
MetricPool ==
    { [metric_name |-> <<"b">>, verbose_name |-> None,
       d3format |-> PyStr(<<".", "3", "s">>)],
      [metric_name |-> <<"a">>, verbose_name |-> PyStr(<<"b">>),
       d3format |-> None],
      [metric_name |-> <<"c">>, verbose_name |-> PyStr(<<>>),
       d3format |-> PyStr(<<>>)],
      [metric_name |-> <<"d">>, verbose_name |-> PyStr(<<"B">>),
       d3format |-> PyStr(<<"%">>)] }

\* The values the type attribute of a datasource takes: None as the base
\* class leaves it, or the string a deriving class defines (one beginning
\* with the separator of uid, one holding it after a digit).
TypePool ==
    { None,
      PyStr(<<"t", "a", "b", "l", "e">>),
      PyStr(<<"_", "1">>),
      PyStr(<<"2", "_", "_", "t", "a", "b", "l", "e">>) }

EndpointPool == { None, PyStr(<<>>), PyStr(<<"/", "x">>) }

\* Primary keys: one and two digits, one a prefix of another.
IdPool == { 1, 2, 12, 21 }

\* A datasource whose id, default_endpoint and filter_select_enabled have
\* each been assigned None, the value an empty field holds; type, baselink
\* and name are as given (None on the base class).  An attribute that was
\* never assigned reads as the class's Column object, whose truth value and
\* text are the mapping library's; no state of the model holds one.
NullDatasource(t, link, nm) ==
    [id |-> None, type |-> t, baselink |-> link, name |-> nm,
     default_endpoint |-> None, filter_select_enabled |-> None]

----------------------------------------------------------------------------
(* BaseDatasource. *)

\* How the evaluation of a property or a call ends: with the value it
\* returns, or with the exception it raises.
Return(v) == [kind |-> "return", value |-> v]
Raised(e) == [kind |-> "raise", error |-> e]
\* The same without the value: that it returned, or what it raised.
Returned == [kind |-> "return"]
OutcomeOf(r) == IF r.kind = "raise" THEN r ELSE Returned

\* self.columns and self.metrics: no instance defines the attribute, so the
\* lookup ends at the class attribute, one list shared by every instance.
columns(self) == classColumns
metrics(self) == classMetrics

\* A uid without the type discriminator.
uid_id_only(self) == PyStr(Format(inst[self].id))

uid(self) ==
    PyStr(Format(inst[self].id) \o <<"_", "_">> \o Format(inst[self].type))

ColumnName(c) == c.column_name
HasGroupby(c) == Truthy(c.groupby)
IsFilterable(c) == Truthy(c.filterable)
\* [c.column_name for c in cols]: each name a str or None.
NamesOf(cols) == [i \in 1..Len(cols) |-> ColumnName(cols[i])]

\* sorted(names) for names that are str or None.  The sort compares every
\* element of a list of two or more, and the comparison of None with a str
\* or with None raises TypeError; a list of fewer than two is returned as
\* it is.
SortedNames(names) ==
    IF Len(names) < 2 THEN Return(names)
    ELSE IF \E i \in 1..Len(names) : names[i].kind # "str"
    THEN Raised("TypeError")
    ELSE LET vals == Sorted([i \in 1..Len(names) |-> names[i].val])
         IN  Return([i \in 1..Len(vals) |-> PyStr(vals[i])])

column_names(self) == SortedNames(NamesOf(columns(self)))

groupby_column_names(self) ==
    SortedNames(NamesOf(SelectSeq(columns(self), HasGroupby)))

filterable_column_names(self) ==
    SortedNames(NamesOf(SelectSeq(columns(self), IsFilterable)))

url(self) ==
    PyStr(<<"/">> \o Format(inst[self].baselink)
            \o <<"/", "e", "d", "i", "t", "/">> \o Format(inst[self].id))

\* explore_url testing `is not None` in place of truth.
explore_url_not_none(self) ==
    IF inst[self].default_endpoint # None
    THEN inst[self].default_endpoint
    ELSE PyStr(<<"/", "s", "u", "p", "e", "r", "s", "e", "t", "/",
                 "e", "x", "p", "l", "o", "r", "e", "/">>
                 \o Format(inst[self].type) \o <<"/">>
                 \o Format(inst[self].id) \o <<"/">>)

explore_url(self) ==
    IF Truthy(inst[self].default_endpoint)
    THEN inst[self].default_endpoint
    ELSE PyStr(<<"/", "s", "u", "p", "e", "r", "s", "e", "t", "/",
                 "e", "x", "p", "l", "o", "r", "e", "/">>
                 \o Format(inst[self].type) \o <<"/">>
                 \o Format(inst[self].id) \o <<"/">>)

\* A dict comprehension: a later metric of the same name replaces an
\* earlier one.
HasFormat(m) == Truthy(m.d3format)
column_formats(self) ==
    LET ms == SelectSeq(metrics(self), HasFormat)
        LastOf(n) ==
            CHOOSE i \in 1..Len(ms) :
                /\ ms[i].metric_name = n
                /\ \A j \in (i + 1)..Len(ms) : ms[j].metric_name # n
    IN  [n \in {ms[i].metric_name : i \in 1..Len(ms)} |->
            ms[LastOf(n)].d3format.val]

\* (m.metric_name, m.verbose_name or m.metric_name)
ComboOf(m) ==
    <<m.metric_name, PyOr(m.verbose_name, PyStr(m.metric_name)).val>>
ComboLabel(x) == x[2]
\* metrics_combo sorted by the first element of the pair, the name.
ComboName(x) == x[1]
metrics_combo_by_name(self) ==
    LET combos == [i \in 1..Len(metrics(self)) |-> ComboOf(metrics(self)[i])]
    IN  SortedByKey([i \in 1..Len(combos) |->
                        <<ComboName(combos[i]), combos[i]>>])

metrics_combo(self) ==
    LET combos == [i \in 1..Len(metrics(self)) |-> ComboOf(metrics(self)[i])]
    IN  SortedByKey([i \in 1..Len(combos) |->
                        <<ComboLabel(combos[i]), combos[i]>>])

\* json.dumps of a str: quoted, with the quote and the backslash escaped.
RECURSIVE JsonEscape(_)
JsonEscape(s) ==
    IF s = <<>> THEN <<>>
    ELSE (IF Head(s) \in {"\"", "\\"} THEN <<"\\", Head(s)>> ELSE <<Head(s)>>)
            \o JsonEscape(Tail(s))
JsonStr(s) == <<"\"">> \o JsonEscape(s) \o <<"\"">>

\* json.dumps([s, b]) for a str s and a bool b.
JsonDumpsPair(s, b) ==
    <<"[">> \o JsonStr(s) \o <<",", " ">>
        \o (IF b THEN <<"t", "r", "u", "e">> ELSE <<"f", "a", "l", "s", "e">>)
        \o <<"]">>

AscChoice(s) ==
    <<JsonDumpsPair(s, TRUE), s \o <<" ", "[", "a", "s", "c", "]">> >>
DescChoice(s) ==
    <<JsonDumpsPair(s, FALSE), s \o <<" ", "[", "d", "e", "s", "c", "]">> >>

\* The loop of data: two entries appended per name of sorted(column_names).
\* It ends in the TypeError of column_names or of sorted, or, at the first
\* name that is None, in that of `s + ' [asc]'`.
OrderByChoices(self) ==
    LET cn == column_names(self)
        names == IF cn.kind = "raise" THEN cn ELSE SortedNames(cn.value)
    IN  IF names.kind = "raise" THEN names
        ELSE IF \E i \in 1..Len(names.value) : names.value[i].kind # "str"
        THEN Raised("TypeError")
        ELSE Return([k \in 1..(2 * Len(names.value)) |->
                IF k % 2 = 1 THEN AscChoice(names.value[(k + 1) \div 2].val)
                ELSE DescChoice(names.value[k \div 2].val)])

\* utils.choicify: each value paired with itself.
choicify(values) == [i \in 1..Len(values) |-> <<values[i], values[i]>>]

\* data: the loop first, then the dict.  Once the loop has ended without
\* an exception every name is a str and the three name views return.
data(self) ==
    LET order_by_choices == OrderByChoices(self)
    IN  IF order_by_choices.kind = "raise" THEN order_by_choices
        ELSE Return(
            [all_cols |-> choicify(column_names(self).value),
             column_formats |-> column_formats(self),
             edit_url |-> url(self),
             filter_select |-> inst[self].filter_select_enabled,
             filterable_cols |->
                choicify(filterable_column_names(self).value),
             gb_cols |-> choicify(groupby_column_names(self).value),
             id |-> inst[self].id,
             metrics_combo |-> metrics_combo(self),
             name |-> inst[self].name,
             order_by_choices |-> order_by_choices.value,
             type |-> inst[self].type])

get_query_str(self, query_obj) == Raised("NotImplementedError")
query(self, query_obj) == Raised("NotImplementedError")
values_for_column(self, column_name, limit) == Raised("NotImplementedError")

----------------------------------------------------------------------------
(* BaseMetric. *)

perm(self) == Raised("NotImplementedError")

----------------------------------------------------------------------------
(* BaseColumn. *)

num_types ==
    << <<"D", "O", "U", "B", "L", "E">>, <<"F", "L", "O", "A", "T">>,
       <<"I", "N", "T">>, <<"B", "I", "G", "I", "N", "T">>,
       <<"L", "O", "N", "G">>, <<"R", "E", "A", "L">>,
       <<"N", "U", "M", "E", "R", "I", "C">> >>
date_types ==
    << <<"D", "A", "T", "E">>, <<"T", "I", "M", "E">>,
       <<"D", "A", "T", "E", "T", "I", "M", "E">> >>
str_types ==
    << <<"V", "A", "R", "C", "H", "A", "R">>,
       <<"S", "T", "R", "I", "N", "G">>, <<"C", "H", "A", "R">> >>

\* any([t in s.upper() for t in types])
AnyIn(s, types) == \E k \in 1..Len(types) : Contains(Upper(s), types[k])

\* self.type and any([...]): the type itself when it is falsy.
\* is_num without the upper-casing of the type.
is_num_case_sensitive(self) ==
    PyAnd(self.type,
          PyBool(\E k \in 1..Len(num_types) :
                    Contains(self.type.val, num_types[k])))

is_num(self) == PyAnd(self.type, PyBool(AnyIn(self.type.val, num_types)))
is_time(self) == PyAnd(self.type, PyBool(AnyIn(self.type.val, date_types)))
is_string(self) == PyAnd(self.type, PyBool(AnyIn(self.type.val, str_types)))

\* Pieces the type strings of the model are put together from: the
\* keywords in upper, lower and mixed case, halves of keywords, and pieces
\* no keyword holds.
Fragments ==
    { <<"I", "N", "T">>, <<"i", "n", "t">>, <<"B", "I", "G">>,
      <<"D", "o", "u", "b", "l", "e">>, <<"f", "l", "o", "a", "t">>,
      <<"L", "O", "N", "G">>, <<"R", "e", "A", "l">>,
      <<"N", "U", "M">>, <<"e", "r", "i", "c">>,
      <<"D", "A", "T", "E">>, <<"t", "i", "m", "e">>, <<"T", "I", "M", "E">>,
      <<"V", "A", "R">>, <<"v", "a", "r">>, <<"C", "H", "A", "R">>,
      <<"c", "h", "a", "r">>, <<"S", "t", "r">>, <<"i", "n", "g">>,
      <<"(">>, <<"x">>, <<"_">> }

----------------------------------------------------------------------------
(* The operations. *)

QueryPool == { [is_timeseries |-> TRUE], [is_timeseries |-> FALSE] }
ColumnNamePool == { <<"a">>, <<"z">> }

NoCall == [op |-> "none", outcome |-> Returned]

\* self.columns.append(c)
AppendColumn(self, c) ==
    /\ Len(columns(self)) < MaxCols
    /\ classColumns' = Append(columns(self), c)
    /\ UNCHANGED <<classMetrics, inst, column, last>>

\* self.metrics.append(m)
AppendMetric(self, m) ==
    /\ Len(metrics(self)) < MaxMetrics
    /\ classMetrics' = Append(metrics(self), m)
    /\ UNCHANGED <<classColumns, inst, column, last>>

CallGetQueryStr(self, query_obj) ==
    /\ last' = [op |-> "get_query_str",
                outcome |-> get_query_str(self, query_obj)]
    /\ UNCHANGED <<classColumns, classMetrics, inst, column>>

CallQuery(self, query_obj) ==
    /\ last' = [op |-> "query", outcome |-> query(self, query_obj)]
    /\ UNCHANGED <<classColumns, classMetrics, inst, column>>

CallValuesForColumn(self, column_name, limit) ==
    /\ last' = [op |-> "values_for_column",
                outcome |-> values_for_column(self, column_name, limit)]
    /\ UNCHANGED <<classColumns, classMetrics, inst, column>>

CallPerm(m) ==
    /\ last' = [op |-> "perm", outcome |-> perm(m)]
    /\ UNCHANGED <<classColumns, classMetrics, inst, column>>

\* Reading data, which reads every other property of the datasource.
CallData(self) ==
    /\ last' = [op |-> "data", outcome |-> OutcomeOf(data(self))]
    /\ UNCHANGED <<classColumns, classMetrics, inst, column>>

\* self.id = i: the key the session gives a datasource when it is stored.
AssignId(self, i) ==
    /\ inst' = [inst EXCEPT ![self].id = PyInt(i)]
    /\ UNCHANGED <<classColumns, classMetrics, column, last>>

\* self.default_endpoint = v
SetDefaultEndpoint(self, v) ==
    /\ inst' = [inst EXCEPT ![self].default_endpoint = v]
    /\ UNCHANGED <<classColumns, classMetrics, column, last>>

\* column.type = v, for None, the empty string, a piece, or the present
\* string with a piece added.
AssignableTypes ==
    LET cur == IF column.type.kind = "str" THEN column.type.val ELSE <<>>
    IN  {None, PyStr(<<>>)}
            \cup { PyStr(cur \o f) :
                     f \in {g \in Fragments : Len(cur) + Len(g) <= MaxTypeLen} }
SetType(v) ==
    /\ v \in AssignableTypes
    /\ column' = [column EXCEPT !.type = v]
    /\ UNCHANGED <<classColumns, classMetrics, inst, last>>

----------------------------------------------------------------------------
(* The specifications. *)

\* Datasources of the base type, their fields assigned None.
BaseInstances == [d \in DS |-> NullDatasource(None, None, None)]

\* One datasource whose fields are None and one whose fields hold values.
StoredInstances ==
    [d \in DS |->
        IF d = "d1"
        THEN NullDatasource(None, None, None)
        ELSE [id |-> PyInt(12), type |-> PyStr(<<"d", "r", "u", "i", "d">>),
              baselink |-> PyStr(<<"d", "m", "v">>), name |-> PyStr(<<"d">>),
              default_endpoint |-> PyStr(<<"/", "x">>),
              filter_select_enabled |-> PyBool(TRUE)]]

\* A column whose type has been assigned None.
NullColumn == [type |-> None]

\* The collections of a datasource.
Init ==
    /\ classColumns = <<>>
    /\ classMetrics = <<>>
    /\ inst = StoredInstances
    /\ column = NullColumn
    /\ last = NoCall

Next ==
    \/ \E d \in DS, c \in ColumnPool : AppendColumn(d, c)
    \/ \E d \in DS, m \in MetricPool : AppendMetric(d, m)

Spec == Init /\ [][Next]_vars

\* The identity of datasources: their type, id and default endpoint.
InitIdentity ==
    /\ classColumns = <<>>
    /\ classMetrics = <<>>
    /\ inst \in [DS -> {NullDatasource(t, None, None) : t \in TypePool}]
    /\ column = NullColumn
    /\ last = NoCall

NextIdentity ==
    \/ \E d \in DS, i \in IdPool : AssignId(d, i)
    \/ \E d \in DS, v \in EndpointPool : SetDefaultEndpoint(d, v)

SpecIdentity == InitIdentity /\ [][NextIdentity]_vars

\* The calls made on the interface, on datasources with columns.
InitCalls ==
    /\ classColumns = <<>>
    /\ classMetrics = <<>>
    /\ inst = StoredInstances
    /\ column = NullColumn
    /\ last = NoCall

NextCalls ==
    \/ \E d \in DS, c \in ColumnPool : AppendColumn(d, c)
    \/ \E d \in DS, q \in QueryPool : CallGetQueryStr(d, q)
    \/ \E d \in DS, q \in QueryPool : CallQuery(d, q)
    \/ \E d \in DS, n \in ColumnNamePool, l \in 0..MaxLimit :
            CallValuesForColumn(d, n, l)
    \/ \E m \in MetricPool : CallPerm(m)
    \/ \E d \in DS : CallData(d)

SpecCalls == InitCalls /\ [][NextCalls]_vars

\* The type of a column and its classification.
InitColumn ==
    /\ classColumns = <<>>
    /\ classMetrics = <<>>
    /\ inst = BaseInstances
    /\ column = NullColumn
    /\ last = NoCall

NextColumn == \E v \in AssignableTypes : SetType(v)

SpecColumn == InitColumn /\ [][NextColumn]_vars

----------------------------------------------------------------------------
(* What the properties below are stated with. *)

Min(a, b) == IF a < b THEN a ELSE b

\* a <= b in lexicographic order: a is a prefix of b, or the first place
\* where they differ holds the smaller code point in a.
LexLeq(a, b) ==
    \/ (Len(a) <= Len(b) /\ \A k \in 1..Len(a) : a[k] = b[k])
    \/ \E k \in 1..Min(Len(a), Len(b)) :
            /\ \A j \in 1..(k - 1) : a[j] = b[j]
            /\ Code(a[k]) < Code(b[k])

Occurrences(names, n) == Cardinality({i \in 1..Len(names) : names[i] = n})

AllNames == { c.column_name : c \in ColumnPool }

AnyColumn(c) == TRUE
GroupbySet(c) == c.groupby = PyBool(TRUE)
FilterableSet(c) == c.filterable = PyBool(TRUE)

\* view returned a list that is ascending and holds each name once per
\* column of cols.
SortedNamesOf(view, cols) ==
    /\ view.kind = "return"
    /\ \A i, j \in 1..Len(view.value) :
          (i < j /\ view.value[i].kind = "str" /\ view.value[j].kind = "str")
              => LexLeq(view.value[i].val, view.value[j].val)
    /\ \A n \in AllNames :
          Occurrences(view.value, n) =
              Cardinality({i \in 1..Len(cols) : cols[i].column_name = n})

\* C1: for every datasource, whatever the order its columns are stored in,
\* column_names is the ascending list of the names of all its columns,
\* groupby_column_names the ascending list of the names of the columns
\* whose groupby flag is set, and filterable_column_names the ascending list
\* of the names of the columns whose filterable flag is set, one entry per
\* qualifying column.
C1_SortedColumnNames ==
    \A d \in DS :
        /\ SortedNamesOf(column_names(d), SelectSeq(columns(d), AnyColumn))
        /\ SortedNamesOf(groupby_column_names(d),
                         SelectSeq(columns(d), GroupbySet))
        /\ SortedNamesOf(filterable_column_names(d),
                         SelectSeq(columns(d), FilterableSet))

\* The display label of a metric: its verbose name, or its name when it
\* has no verbose name (none given, or an empty one).
DisplayLabel(m) ==
    IF m.verbose_name.kind = "str" /\ m.verbose_name.val # <<>>
    THEN m.verbose_name.val
    ELSE m.metric_name

WithLabel(pairs, l) == LET Has(x) == x[2] = l IN SelectSeq(pairs, Has)

C3_OrderByChoices ==
    \A d \in DS :
        /\ data(d).kind = "return"
        /\ column_names(d).kind = "return"
        /\ LET obc == data(d).value.order_by_choices
               names == column_names(d).value
           IN  /\ Len(obc) = 2 * Len(columns(d))
               /\ Len(names) = Len(columns(d))
               /\ \A i \in 1..Len(names) :
                     /\ names[i].kind = "str"
                     /\ obc[2 * i - 1] =
                           <<JsonDumpsPair(names[i].val, TRUE),
                             names[i].val
                                \o <<" ", "[", "a", "s", "c", "]">> >>
                     /\ obc[2 * i] =
                           <<JsonDumpsPair(names[i].val, FALSE),
                             names[i].val
                                \o <<" ", "[", "d", "e", "s", "c", "]">> >>
                     /\ obc[2 * i - 1][1] # obc[2 * i][1]

DataKeys ==
    { "all_cols", "column_formats", "edit_url", "filter_select",
      "filterable_cols", "gb_cols", "id", "metrics_combo", "name",
      "order_by_choices", "type" }

Values(choices) == [i \in 1..Len(choices) |-> choices[i][1]]

\* C8: data has exactly the eleven keys, and each entry agrees with the
\* datasource's own view: column_formats, metrics_combo, id, name and type
\* with the properties of the same name, edit_url with url, filter_select
\* with filter_select_enabled, and all_cols, filterable_cols and gb_cols
\* list the names of column_names, filterable_column_names and
\* groupby_column_names in the same order.
C8_DataAgrees ==
    \A d \in DS :
        /\ data(d).kind = "return"
        /\ LET dd == data(d).value
           IN  /\ DOMAIN dd = DataKeys
               /\ dd.column_formats = column_formats(d)
               /\ dd.metrics_combo = metrics_combo(d)
               /\ dd.id = inst[d].id
               /\ dd.name = inst[d].name
               /\ dd.type = inst[d].type
               /\ dd.edit_url = url(d)
               /\ dd.filter_select = inst[d].filter_select_enabled
               /\ Return(Values(dd.all_cols)) = column_names(d)
               /\ Return(Values(dd.filterable_cols)) =
                     filterable_column_names(d)
               /\ Return(Values(dd.gb_cols)) = groupby_column_names(d)

\* C10: an addition of a column or a metric to one datasource's collection
\* leaves every other datasource's columns and metrics, and so its
\* column_names, metrics_combo, column_formats and data, as they were.
C10_OwnCollections ==
    [][\A d \in DS :
          (\/ \E c \in ColumnPool : AppendColumn(d, c)
           \/ \E m \in MetricPool : AppendMetric(d, m))
          => \A e \in DS \ {d} :
                /\ columns(e)' = columns(e)
                /\ metrics(e)' = metrics(e)
                /\ column_names(e)' = column_names(e)
                /\ metrics_combo(e)' = metrics_combo(e)
                /\ column_formats(e)' = column_formats(e)
                /\ data(e)' = data(e)]_vars

----------------------------------------------------------------------------
(* Properties of the identity of a datasource and of the calls. *)

\* /superset/explore/<type>/<id>/
SynthesizedPath(d) ==
    PyStr(<<"/", "s", "u", "p", "e", "r", "s", "e", "t", "/",
            "e", "x", "p", "l", "o", "r", "e", "/">>
            \o Format(inst[d].type) \o <<"/">> \o Format(inst[d].id)
            \o <<"/">>)

\* C4 as stated: explore_url is default_endpoint whenever default_endpoint
\* has been given a value, and the synthesized path otherwise.
C4_ExploreUrlWhenGiven ==
    \A d \in DS :
        IF inst[d].default_endpoint # None
        THEN explore_url(d) = inst[d].default_endpoint
        ELSE explore_url(d) = SynthesizedPath(d)

\* C4, amended: explore_url is default_endpoint whenever default_endpoint
\* is a non-empty string; when it is None or empty, explore_url is the
\* synthesized path /superset/explore/<type>/<id>/.
C4_ExploreUrl ==
    \A d \in DS :
        IF inst[d].default_endpoint.kind = "str"
            /\ inst[d].default_endpoint.val # <<>>
        THEN explore_url(d) = inst[d].default_endpoint
        ELSE explore_url(d) = SynthesizedPath(d)

\* One datasource with an endpoint, one stored datasource with an empty
\* endpoint.
C4_Witness ==
    /\ inst["d1"].default_endpoint = PyStr(<<"/", "x">>)
    /\ explore_url("d1") = PyStr(<<"/", "x">>)
    /\ inst["d2"].default_endpoint = PyStr(<<>>)
    /\ inst["d2"].id = PyInt(12)
    /\ inst["d2"].type.kind = "str"

\* C5: two datasources whose (id, type) pairs differ, in particular two
\* of the same id and different types, have different uid values.
C5_UidUnique ==
    \A d, e \in DS :
        <<inst[d].id, inst[d].type>> # <<inst[e].id, inst[e].type>>
            => uid(d) # uid(e)

\* Two datasources of the same id and different types, one of them a type
\* that begins with an underscore.
C5_Witness ==
    /\ inst["d1"].id = PyInt(12)
    /\ inst["d2"].id = PyInt(12)
    /\ inst["d1"].type = PyStr(<<"_", "1">>)
    /\ inst["d2"].type.kind = "str"
    /\ inst["d1"].type # inst["d2"].type
    /\ uid("d1") # uid("d2")

StubOps == { "get_query_str", "query", "values_for_column", "perm" }

\* C7: each of get_query_str, query, values_for_column and perm, whatever
\* its arguments, ends in the not-implemented failure and returns no
\* value; no operation ends in another failure; and a call leaves the
\* datasources, the collections and the column as they were.
C7_StubsNotImplemented ==
    [][/\ last'.op \in StubOps
            => last'.outcome = [kind |-> "raise",
                                error |-> "NotImplementedError"]
       /\ last'.outcome.kind = "raise"
            => (last'.op \in StubOps
                /\ last'.outcome.error = "NotImplementedError")
       /\ last' # last
            => UNCHANGED <<classColumns, classMetrics, inst, column>>]_vars

----------------------------------------------------------------------------
(* Properties of the classification of a column. *)

NumWords ==
    { <<"D", "O", "U", "B", "L", "E">>, <<"F", "L", "O", "A", "T">>,
      <<"I", "N", "T">>, <<"B", "I", "G", "I", "N", "T">>,
      <<"L", "O", "N", "G">>, <<"R", "E", "A", "L">>,
      <<"N", "U", "M", "E", "R", "I", "C">> }
DateWords ==
    { <<"D", "A", "T", "E">>, <<"T", "I", "M", "E">>,
      <<"D", "A", "T", "E", "T", "I", "M", "E">> }
StrWords ==
    { <<"V", "A", "R", "C", "H", "A", "R">>,
      <<"S", "T", "R", "I", "N", "G">>, <<"C", "H", "A", "R">> }

\* The letter c is the upper-case letter w in either case.
SameLetter(c, w) == c = w \/ Code(c) = Code(w) + 32

\* s holds the word w, in any letter case, as a contiguous run.
HoldsWord(s, w) ==
    \E i \in 0..(Len(s) - Len(w)) :
        \A j \in 1..Len(w) : SameLetter(s[i + j], w[j])

HoldsAny(s, words) == \E w \in words : HoldsWord(s, w)

TypeText == IF column.type.kind = "str" THEN column.type.val ELSE <<>>

\* C6: is_num is true of a column whose type holds, in any letter case, one
\* of the numeric words; is_time is true exactly when the type holds one of
\* the date words, and is_string exactly when it holds one of the string
\* words.
C6_Classifiers ==
    /\ HoldsAny(TypeText, NumWords) => is_num(column) = PyBool(TRUE)
    /\ is_num(column) = PyBool(TRUE) => HoldsAny(TypeText, NumWords)
    /\ is_time(column) = PyBool(TRUE) <=> HoldsAny(TypeText, DateWords)
    /\ is_string(column) = PyBool(TRUE) <=> HoldsAny(TypeText, StrWords)

\* A type not in upper case that holds a string word and a date word, and
\* so satisfies two classifiers.
C6_Witness ==
    /\ column.type.kind = "str"
    /\ Upper(column.type.val) # column.type.val
    /\ is_string(column) = PyBool(TRUE)
    /\ is_time(column) = PyBool(TRUE)
    /\ is_num(column) = PyBool(FALSE)

\* C9: for every value of the type, an unset type and the empty string
\* included, each of is_num, is_time and is_string is a boolean.
C9_ClassifiersBoolean ==
    /\ is_num(column) \in {PyBool(TRUE), PyBool(FALSE)}
    /\ is_time(column) \in {PyBool(TRUE), PyBool(FALSE)}
    /\ is_string(column) \in {PyBool(TRUE), PyBool(FALSE)}

====
